---- MODULE Spec2Model ----
(***************************************************************************)
(* Maltrail sensor (sensor.py): packet decoder and matcher, NXDOMAIN       *)
(* heuristic, trail store updater, capture loop and worker processes.      *)
(*                                                                         *)
(* Byte strings are sequences of one-character strings.  A frame is the    *)
(* record of the fields the decoder unpacks from it, together with the     *)
(* number of bytes captured, so that every slice and every struct.unpack   *)
(* of _process_packet is decided by the same lengths as in the code.       *)
(***************************************************************************)
EXTENDS Integers, Sequences, FiniteSets, TLC

(***************************************************************************)
(* Constants of core.settings, socket and pcapy                            *)
(***************************************************************************)
ETH_LENGTH == 14
IPPROTO == 2048
IPPROTO_TCP == 6
IPPROTO_UDP == 17
IPPROTO_ICMP == 1
IPPROTO_LUT == (IPPROTO_ICMP :> "ICMP")
DLT_EN10MB == 1
DLT_LINUX_SLL == 113
\* a link type that is neither of the two
DLT_NULL == 0
\* _datalink before init() sets it (None)
DLT_NONE == -1
TRAIL == [IP |-> "IP", DNS |-> "DNS", URL |-> "URL"]
Kinds == {TRAIL.IP, TRAIL.DNS, TRAIL.URL}

Max(a, b) == IF a >= b THEN a ELSE b
Min(a, b) == IF a <= b THEN a ELSE b
SetMax(S) == CHOOSE x \in S : \A y \in S : y <= x

(***************************************************************************)
(* Python string methods used by the decoder                               *)
(***************************************************************************)
\* s.find(c) + 1 : position of the first c, 0 when absent
find(s, c) ==
    IF \E i \in 1..Len(s) : s[i] = c
    THEN CHOOSE i \in 1..Len(s) : s[i] = c /\ \A j \in 1..(i - 1) : s[j] # c
    ELSE 0

\* s.rfind(c) + 1 : position of the last c, 0 when absent
rfind(s, c) ==
    IF \E i \in 1..Len(s) : s[i] = c
    THEN SetMax({i \in 1..Len(s) : s[i] = c})
    ELSE 0

\* s.count(c)
count(s, c) == Cardinality({i \in 1..Len(s) : s[i] = c})

\* s.rstrip(c) : every trailing c is removed
rstrip(s, c) ==
    LET keep == {i \in 1..Len(s) : s[i] # c}
    IN  IF keep = {} THEN <<>> ELSE SubSeq(s, 1, SetMax(keep))

\* s.split(c)
RECURSIVE split(_, _)
split(s, c) ==
    LET i == find(s, c)
    IN  IF i = 0 THEN <<s>>
        ELSE <<SubSeq(s, 1, i - 1)>> \o split(SubSeq(s, i + 1, Len(s)), c)

\* c.join(parts)
RECURSIVE join(_, _)
join(parts, c) ==
    IF Len(parts) = 0 THEN <<>>
    ELSE IF Len(parts) = 1 THEN parts[1]
    ELSE parts[1] \o <<c>> \o join(Tail(parts), c)

\* s[:-n] : for n = 0 this is s[:0], the empty string
cut_tail(s, n) == IF n = 0 THEN <<>> ELSE SubSeq(s, 1, Len(s) - n)

\* os.path.splitext(p) : <<root, ext>>; the extension starts at the last dot
\* of the last path component, unless that component has only leading dots
splitext(p) ==
    LET sepIndex == rfind(p, "/")
        dotIndex == rfind(p, ".")
    IN  IF dotIndex > sepIndex
           /\ \E k \in (sepIndex + 1)..(dotIndex - 1) : p[k] # "."
        THEN <<SubSeq(p, 1, dotIndex - 1), SubSeq(p, dotIndex, Len(p))>>
        ELSE <<p, <<>>>>

(***************************************************************************)
(* HTTP extractor: candidate paths and the order of the TS.URL checks      *)
(***************************************************************************)
candidate_paths(uri) ==
    LET path == rstrip(split(uri, "?")[1], "/")
        ext == splitext(path)
        paths1 == IF ext[2] # <<>> THEN <<path, ext[1]>> ELSE <<path>>
        last == paths1[Len(paths1)]
    IN  IF count(last, "/") > 1
        THEN Append(paths1, SubSeq(last, 1, rfind(last, "/") - 1))
        ELSE paths1

Probe(kind, key, value) == [kind |-> kind, key |-> key, value |-> value]

\* mutant: host + path is checked before the bare path
RECURSIVE url_probes_host_first(_, _)
url_probes_host_first(host, paths) ==
    IF Len(paths) = 0 THEN <<>>
    ELSE LET path == paths[1]
             url == host \o path
             bare == IF path # <<>> THEN <<Probe(TRAIL.URL, path, path)>> ELSE <<>>
         IN  <<Probe(TRAIL.URL, url, url)>> \o bare \o url_probes_host_first(host, Tail(paths))

\* for path in paths: the bare path (when not empty), then host + path
RECURSIVE url_probes(_, _)
url_probes(host, paths) ==
    IF Len(paths) = 0 THEN <<>>
    ELSE LET path == paths[1]
             url == host \o path
             bare == IF path # <<>> THEN <<Probe(TRAIL.URL, path, path)>> ELSE <<>>
         IN  bare \o <<Probe(TRAIL.URL, url, url)>> \o url_probes(host, Tail(paths))

(***************************************************************************)
(* DNS: question name decoding and the suffix checks                       *)
(***************************************************************************)
\* the while loop over the labels; dlen = len(data), k = index of the label
\* whose length byte is at `offset`.  The byte after the last label is 0.
RECURSIVE decode_name(_, _, _, _, _)
decode_name(labels, dlen, k, offset, query) ==
    IF ~(dlen > offset) THEN [query |-> query, offset |-> offset]
    ELSE LET length == IF k <= Len(labels) THEN Len(labels[k]) ELSE 0
         IN  IF length = 0
             THEN [query |-> cut_tail(query, 1), offset |-> offset]
             ELSE LET avail == Min(length, Max(0, dlen - (offset + 1)))
                  IN  decode_name(labels, dlen, k + 1, offset + length + 1,
                                  query \o SubSeq(labels[k], 1, avail) \o <<".">>)

dns_trail(query, domain) ==
    IF domain = query THEN domain
    ELSE <<"(">> \o cut_tail(query, Len(domain)) \o <<")">> \o domain

\* mutant: the suffixes are tried from the shortest to the longest
dns_probes_shortest_first(query) ==
    LET parts == split(query, ".")
    IN  [i \in 1..Len(parts) |->
            LET domain == join(SubSeq(parts, Len(parts) + 1 - i, Len(parts)), ".")
            IN  Probe(TRAIL.DNS, domain, dns_trail(query, domain))]

\* lines 178-188
dns_probes(query) ==
    LET parts == split(query, ".")
    IN  [i \in 1..Len(parts) |->
            LET domain == join(SubSeq(parts, i, Len(parts)), ".")
            IN  Probe(TRAIL.DNS, domain, dns_trail(query, domain))]

\* mutant: the source address is tried first
ip_probes_src_first(src_ip, dst_ip) ==
    <<Probe(TRAIL.IP, src_ip, src_ip), Probe(TRAIL.IP, dst_ip, dst_ip)>>

\* lines 90-93, 149-152, 200-203: dst_ip, then src_ip
ip_probes(src_ip, dst_ip) ==
    <<Probe(TRAIL.IP, dst_ip, dst_ip), Probe(TRAIL.IP, src_ip, src_ip)>>

(***************************************************************************)
(* _process_packet, lines 69-203: what the decoder does with one frame.    *)
(*                                                                         *)
(* The trail lookups of one frame are grouped: a group is an if/elif chain *)
(* or a for loop with break; its probes are tried in order and the first   *)
(* hit is logged.  `post` is what follows the groups: nothing, the         *)
(* NXDOMAIN counter update, or a struct.error raised by a short buffer.    *)
(***************************************************************************)
NoHttp == [has_line |-> FALSE, spaces |-> 0, has_http |-> FALSE, uri |-> <<>>,
           has_host |-> FALSE, host |-> <<>>]
NoDns == [flags_hi |-> 0, flags_lo |-> 0, qdcount |-> 0, labels |-> <<>>,
          type |-> 0, class |-> 0]

Plan(groups, post, query, proto, sport, dport) ==
    [groups |-> groups, post |-> post, query |-> query, proto |-> proto,
     src_port |-> sport, dst_port |-> dport]
\* the port of a protocol without ports, logged as '-'
NO_PORT == -1
NoPlan == Plan(<<>>, "none", <<>>, "-", NO_PORT, NO_PORT)
ErrorPlan == Plan(<<>>, "error", <<>>, "-", NO_PORT, NO_PORT)

\* line 70-71: the cooked header's first two bytes are skipped
packet_len(f, datalink) ==
    IF datalink = DLT_LINUX_SLL THEN Max(0, f.caplen - 2) ELSE f.caplen

\* x & bit # 0, for a single bit
bit_set(x, bit) == (x \div bit) % 2 = 1

\* lines 100-138
http_plan(f, groups, dlen) ==
    LET keep == Plan(groups, "none", <<>>, "TCP", f.src_port, f.dst_port)
    IN  IF ~(f.dst_port = 80 /\ dlen > 0) THEN keep
        ELSE IF ~f.http.has_line THEN keep
        ELSE IF ~(f.http.spaces = 2 /\ f.http.has_http) THEN keep
        ELSE IF ~f.http.has_host THEN keep
        ELSE Plan(groups \o <<url_probes(f.http.host, candidate_paths(f.http.uri))>>,
                  "none", <<>>, "TCP", f.src_port, f.dst_port)

\* lines 85-138
tcp_plan(f, len, iph_length) ==
    LET i == iph_length + ETH_LENGTH
        groups == IF f.flags = 2 THEN <<ip_probes(f.src_ip, f.dst_ip)>> ELSE <<>>
        h_size == ETH_LENGTH + iph_length + (f.doff * 4)
    IN  IF len - i < 14 THEN ErrorPlan
        ELSE IF bit_set(f.flags, 8) THEN http_plan(f, groups, Max(0, len - h_size))
        ELSE Plan(groups, "none", <<>>, "TCP", f.src_port, f.dst_port)

\* mutant: QDCOUNT is not looked at
dns_plan_any_qdcount(f, groups, dlen) ==
    LET keep == Plan(groups, "none", <<>>, "UDP", f.src_port, f.dst_port)
        name == decode_name(f.dns.labels, dlen, 1, 12, <<>>)
    IN  IF ~(dlen > 6) THEN keep
        ELSE IF f.dns.flags_hi = 1
        THEN IF dlen < name.offset + 5
             THEN Plan(groups, "error", <<>>, "UDP", f.src_port, f.dst_port)
             ELSE IF f.dns.type # 12 /\ f.dns.class = 1
             THEN Plan(groups \o <<dns_probes(name.query)>>, "none", <<>>, "UDP",
                       f.src_port, f.dst_port)
             ELSE keep
        ELSE IF bit_set(f.dns.flags_hi, 128) /\ f.dns.flags_lo = 131
        THEN Plan(groups, "nx", name.query, "UDP", f.src_port, f.dst_port)
        ELSE keep

\* lines 154-197
dns_plan(f, groups, dlen) ==
    LET keep == Plan(groups, "none", <<>>, "UDP", f.src_port, f.dst_port)
        name == decode_name(f.dns.labels, dlen, 1, 12, <<>>)
    IN  IF ~(dlen > 6) THEN keep
        ELSE IF ~(f.dns.qdcount > 0) THEN keep
        ELSE IF f.dns.flags_hi = 1
        THEN IF dlen < name.offset + 5
             THEN Plan(groups, "error", <<>>, "UDP", f.src_port, f.dst_port)
             ELSE IF f.dns.type # 12 /\ f.dns.class = 1
             THEN Plan(groups \o <<dns_probes(name.query)>>, "none", <<>>, "UDP",
                       f.src_port, f.dst_port)
             ELSE keep
        ELSE IF bit_set(f.dns.flags_hi, 128) /\ f.dns.flags_lo = 131
        THEN Plan(groups, "nx", name.query, "UDP", f.src_port, f.dst_port)
        ELSE keep

\* lines 140-197
udp_plan(f, len, iph_length) ==
    LET i == iph_length + ETH_LENGTH
        groups == IF f.src_port # 53 THEN <<ip_probes(f.src_ip, f.dst_ip)>> ELSE <<>>
        h_size == ETH_LENGTH + iph_length + 8
    IN  IF Max(0, Min(len, i + 4) - i) < 4 THEN NoPlan
        ELSE IF f.dst_port = 53 \/ f.src_port = 53
        THEN dns_plan(f, groups, Max(0, len - h_size))
        ELSE Plan(groups, "none", <<>>, "UDP", f.src_port, f.dst_port)

\* lines 199-203
other_plan(f) ==
    IF f.protocol \in DOMAIN IPPROTO_LUT
    THEN Plan(<<ip_probes(f.src_ip, f.dst_ip)>>, "none", <<>>,
              IPPROTO_LUT[f.protocol], NO_PORT, NO_PORT)
    ELSE NoPlan

\* lines 70-83 and the dispatch on the protocol
process_plan(f, datalink) ==
    LET len0 == packet_len(f, datalink)
        len == Min(len0, ETH_LENGTH + f.ip_length)
        iph_length == f.ihl * 4
    IN  IF len0 < ETH_LENGTH THEN ErrorPlan
        ELSE IF f.eth_protocol # IPPROTO THEN NoPlan
        ELSE IF len0 < ETH_LENGTH + 20 THEN ErrorPlan
        ELSE IF f.protocol = IPPROTO_TCP THEN tcp_plan(f, len, iph_length)
        ELSE IF f.protocol = IPPROTO_UDP THEN udp_plan(f, len, iph_length)
        ELSE other_plan(f)

(***************************************************************************)
(* The NXDOMAIN counters, lines 190-197                                    *)
(***************************************************************************)
\* scaled down from the value of core.settings so that runs of responses
\* longer than the threshold stay enumerable
NO_SUCH_NAME_PER_HOUR_THRESHOLD == 3
SECONDS_PER_HOUR == 3600

\* mutant: the alert is logged from count = threshold on
no_such_name_from_threshold(ctrs, query, sec) ==
    LET hour == sec \div SECONDS_PER_HOUR
    IN  IF query \notin DOMAIN ctrs \/ ctrs[query][1] # hour
        THEN <<(query :> <<hour, 1>>) @@ ctrs, FALSE>>
        ELSE <<[ctrs EXCEPT ![query] = <<hour, @[2] + 1>>],
               ctrs[query][2] + 1 >= NO_SUCH_NAME_PER_HOUR_THRESHOLD>>

\* mutant: a response in another hour keeps the count
no_such_name_keeps_count(ctrs, query, sec) ==
    LET hour == sec \div SECONDS_PER_HOUR
    IN  IF query \notin DOMAIN ctrs
        THEN <<(query :> <<hour, 1>>) @@ ctrs, FALSE>>
        ELSE <<[ctrs EXCEPT ![query] = <<hour, @[2] + 1>>],
               ctrs[query][2] + 1 > NO_SUCH_NAME_PER_HOUR_THRESHOLD>>

\* <<counters after the response, whether the heuristic alert is logged>>
no_such_name(ctrs, query, sec) ==
    LET hour == sec \div SECONDS_PER_HOUR
    IN  IF query \notin DOMAIN ctrs \/ ctrs[query][1] # hour
        THEN <<(query :> <<hour, 1>>) @@ ctrs, FALSE>>
        ELSE <<[ctrs EXCEPT ![query] = <<hour, @[2] + 1>>],
               ctrs[query][2] + 1 > NO_SUCH_NAME_PER_HOUR_THRESHOLD>>

(***************************************************************************)
(* One decoder: the position of a process inside _process_packet.          *)
(* Each step reads the process's trail dictionary at most once, which is   *)
(* the granularity at which the updater thread can interleave.             *)
(***************************************************************************)
NoFrame == [caplen |-> 0, eth_protocol |-> 0, ihl |-> 0, ip_length |-> 0,
            protocol |-> 0, src_ip |-> "-", dst_ip |-> "-", src_port |-> 0,
            dst_port |-> 0, doff |-> 0, flags |-> 0, http |-> NoHttp, dns |-> NoDns]

Idle == [pc |-> "idle", frame |-> NoFrame, sec |-> 0, usec |-> 0, idx |-> 0,
         g |-> 0, k |-> 0, stage |-> "-", info |-> "-", result |-> "-"]

\* line 205: except Exception catches every exception the decoder raises
ExceptionClasses == {"struct.error", "KeyError"}
\* mutant: the handler is `except KeyError`
Catches_KeyError_only(exc) == exc = "KeyError"
Catches(exc) == exc \in ExceptionClasses

Finish(c, result) ==
    [c EXCEPT !.pc = "done", !.g = 0, !.k = 0, !.stage = "-", !.info = "-",
              !.result = result]
Raise(c, exc) == Finish(c, IF Catches(exc) THEN "caught" ELSE "escaped")

\* entry of _process_packet(packet, sec, usec); idx is the frame's capture index
Start(f, sec, usec, idx, datalink) ==
    LET plan == process_plan(f, datalink)
        c == [Idle EXCEPT !.frame = f, !.sec = sec, !.usec = usec, !.idx = idx]
    IN  IF Len(plan.groups) > 0
        THEN [c EXCEPT !.pc = "run", !.g = 1, !.k = 1, !.stage = "test"]
        ELSE IF plan.post = "none" THEN Finish(c, "returned")
        ELSE [c EXCEPT !.pc = "post"]

AfterGroup(c, plan) ==
    IF c.g < Len(plan.groups)
    THEN [c EXCEPT !.g = c.g + 1, !.k = 1, !.stage = "test", !.info = "-"]
    ELSE IF plan.post = "none" THEN Finish(c, "returned")
    ELSE [c EXCEPT !.pc = "post", !.g = 0, !.k = 0, !.stage = "-", !.info = "-"]

Alert(c, plan, kind, trail, info, source) ==
    [sec |-> c.sec, usec |-> c.usec, src_ip |-> c.frame.src_ip,
     src_port |-> plan.src_port, dst_ip |-> c.frame.dst_ip,
     dst_port |-> plan.dst_port, proto |-> plan.proto, kind |-> kind,
     trail |-> trail, info |-> info, source |-> source]

StepResult(c, emit, ctrs, obs) == [ctx |-> c, emit |-> emit, ctrs |-> ctrs, obs |-> obs]

\* one lookup of `trails[kind]`: the membership test, then the two reads
\* trails[kind][key][0] and trails[kind][key][1] inside the log_event call
probe_step(c, plan, store, ctrs) ==
    LET group == plan.groups[c.g]
        p == group[c.k]
        present == p.kind \in DOMAIN store
        hit == present /\ p.key \in DOMAIN store[p.kind]
    IN  IF c.stage = "test"
        THEN IF ~present THEN StepResult(Raise(c, "KeyError"), <<>>, ctrs, {store})
             ELSE IF hit THEN StepResult([c EXCEPT !.stage = "info"], <<>>, ctrs, {store})
             ELSE IF c.k < Len(group)
             THEN StepResult([c EXCEPT !.k = c.k + 1], <<>>, ctrs, {store})
             ELSE StepResult(AfterGroup(c, plan), <<>>, ctrs, {store})
        ELSE IF c.stage = "info"
        THEN IF ~hit THEN StepResult(Raise(c, "KeyError"), <<>>, ctrs, {store})
             ELSE StepResult([c EXCEPT !.stage = "source", !.info = store[p.kind][p.key][1]],
                             <<>>, ctrs, {store})
        ELSE IF ~hit THEN StepResult(Raise(c, "KeyError"), <<>>, ctrs, {store})
             ELSE StepResult(AfterGroup(c, plan),
                             <<Alert(c, plan, p.kind, p.value, c.info, store[p.kind][p.key][2])>>,
                             ctrs, {store})

\* what follows the lookups: struct.error, or the NXDOMAIN counter update
post_step(c, plan, ctrs) ==
    IF plan.post = "error" THEN StepResult(Raise(c, "struct.error"), <<>>, ctrs, {})
    ELSE LET r == no_such_name(ctrs, plan.query, c.sec)
         IN  StepResult(Finish(c, "returned"),
                        IF r[2] THEN <<Alert(c, plan, TRAIL.DNS, plan.query,
                                             "suspicious no such name", "(heuristic)")>>
                        ELSE <<>>,
                        r[1], {})

Step(c, store, ctrs, datalink) ==
    LET plan == process_plan(c.frame, datalink)
    IN  IF c.pc = "run" THEN probe_step(c, plan, store, ctrs)
        ELSE post_step(c, plan, ctrs)

(***************************************************************************)
(* Bounds of the model                                                     *)
(***************************************************************************)
\* multiprocessing.cpu_count() - 1
NWorkers == 2
\* slots of the ring buffer
Slots == 3
\* frames captured in the whole-system specification
MaxFrames == 2
\* updater ticks, the one inside init() included
MaxTicks == 2
\* name-error responses fed to the decoder in SpecHS
MaxResponses == 5

(***************************************************************************)
(* Trail tables                                                            *)
(***************************************************************************)
EmptyDict == [x \in {} |-> <<>>]

\* a trail table: every key of `keys` maps to (info, source)
Table(ip, dns, url, info, source) ==
    [IP |-> [x \in ip |-> <<info, source>>],
     DNS |-> [x \in dns |-> <<info, source>>],
     URL |-> [x \in url |-> <<info, source>>]]

IP_A == "1.2.3.4"
IP_B == "10.0.0.1"
IP_C == "9.9.9.9"
N_e == <<"e">>
N_be == <<"b", ".", "e">>
N_sbe == <<"s", ".", "b", ".", "e">>

\* what update() can return (besides nothing) and what load_trails() returns
TableA == Table({IP_A}, {N_be}, {}, "iA", "sA")
TableB == Table({IP_A, IP_B}, {N_be, N_e}, {}, "iB", "sB")
Tables == {TableA, TableB}
CacheTable == Table({IP_B}, {N_e}, {}, "iC", "sC")
load_trails == CacheTable

(***************************************************************************)
(* State                                                                   *)
(***************************************************************************)
VARIABLES
    main,              \* where the main thread is
    _multiprocessing,   \* _multiprocessing
    _datalink,          \* _datalink
    _count,             \* _count
    _n,                 \* _n.value, shared with the workers
    _buffer,            \* _buffer: slot -> block
    forked,            \* the worker processes have been started
    widx,              \* worker -> index of the next block it reads
    trails,            \* process -> its `trails` dictionary
    counters,          \* process -> its NO_SUCH_NAME_COUNTERS
    ctx,               \* process -> its position in _process_packet
    timer,             \* the updater: position in update_timer, fetched table, ticks done
    sink,              \* the event log: <<frame index, alert record>> in write order
    trace,             \* history: per captured frame, what its decoding observed
    exit_code,         \* exit status of the process
    ends,              \* monitor, line 317: iterations of the loop done
    wlog               \* history: the write_block calls, in order

vars == <<main, _multiprocessing, _datalink, _count, _n, _buffer, forked, widx,
          trails, counters, ctx, timer, sink, trace, exit_code, ends, wlog>>

Workers == {ToString(i) : i \in 0..(NWorkers - 1)}
Procs == {"main"} \cup Workers
\* worker(_buffer, _n, i, cpu_count - 1, _process_packet): the i of process w
lane(w) == CHOOSE i \in 0..(NWorkers - 1) : ToString(i) = w

\* a block of the ring; idx is the index it was written for
EmptyBlock == [marker |-> "EMPTY", sec |-> 0, usec |-> 0, frame |-> NoFrame, idx |-> 0]

\* history entry of a captured frame: the frame, its timestamp, the dictionary of the
\* capturing process at capture, whether the updater has left it alone since,
\* the dictionaries its lookups saw, whether its decoding has finished and how
TraceEntry(f, sec, store, clean, c) ==
    [frame |-> f, sec |-> sec, cap |-> store, clean |-> clean, obs |-> {},
     done |-> (c.pc = "done"), result |-> c.result]

Disturb(tr) ==
    [i \in DOMAIN tr |-> IF tr[i].done THEN tr[i] ELSE [tr[i] EXCEPT !.clean = FALSE]]

\* core.log.log_event: one record is appended to the log in one write
log_event(log, idx, emit) ==
    IF Len(emit) = 0 THEN log ELSE Append(log, <<idx, emit[1]>>)

\* width of multiprocessing.Value('i'), a C int; scaled down from 32 so that
\* the frame count can pass its range
INT_BITS == 4
INT_MAX == 2 ^ (INT_BITS - 1) - 1
\* what a C int holds after x is stored into it (ctypes does not check the range)
c_int(x) == ((x + 2 ^ (INT_BITS - 1)) % (2 ^ INT_BITS)) - 2 ^ (INT_BITS - 1)

\* the process has not ended
Alive == main \notin {"exited", "returned", "crashed"}

\* lines 331-334: an exception that is not a KeyboardInterrupt leaves main(), is
\* printed by the handler of line 333, and the interpreter ends normally
Unhandled ==
    /\ main' = "exited"
    /\ UNCHANGED exit_code

\* exit("..."): SystemExit with a message, which no handler catches
exit ==
    /\ main' = "exited"
    /\ exit_code' = 1

(***************************************************************************)
(* init.update_timer, lines 217-228.  The first call is made by init()     *)
(* itself (line 230), the later ones by the Timer thread.                  *)
(***************************************************************************)
\* mutant: the first tick is started like the later ones, in a thread of
\* its own, and init() goes on at once
update_call_detached ==
    /\ Alive
    /\ timer.pc = "start"
    /\ \E t \in Tables \cup {EmptyDict} :
          timer' = [timer EXCEPT !.pc = "got", !.table = t, !.fetched = t,
                                 !.before = trails["main"]]
    /\ main' = IF main = "init" THEN "sudo" ELSE main
    /\ UNCHANGED <<_multiprocessing, _datalink, _count, _n, _buffer, forked, widx,
                   trails, counters, ctx, sink, trace, exit_code, ends, wlog>>

\* line 218: _ = update(server=config.SERVER_UPDATE)
update_call ==
    /\ Alive
    /\ timer.pc = "start"
    /\ \E t \in Tables \cup {EmptyDict} :
          timer' = [timer EXCEPT !.pc = "got", !.table = t, !.fetched = t,
                                 !.before = trails["main"]]
    /\ UNCHANGED <<main, _multiprocessing, _datalink, _count, _n, _buffer, forked, widx,
                   trails, counters, ctx, sink, trace, exit_code, ends, wlog>>

\* line 218, when update() raises: nothing in update_timer catches it; inside
\* init() it leaves main(), in the Timer thread it ends the thread
update_raise ==
    /\ Alive
    /\ timer.pc = "start"
    /\ timer' = [timer EXCEPT !.pc = "dead", !.before = trails["main"]]
    /\ IF main = "init" THEN Unhandled ELSE UNCHANGED <<main, exit_code>>
    /\ UNCHANGED <<_multiprocessing, _datalink, _count, _n, _buffer, forked, widx,
                   trails, counters, ctx, sink, trace, ends, wlog>>

\* lines 220-221: if _: trails.clear()
update_clear ==
    /\ Alive
    /\ timer.pc = "got"
    /\ timer.table # EmptyDict
    /\ trails' = [trails EXCEPT !["main"] = EmptyDict]
    /\ timer' = [timer EXCEPT !.pc = "cleared"]
    /\ trace' = Disturb(trace)
    /\ UNCHANGED <<main, _multiprocessing, _datalink, _count, _n, _buffer, forked, widx,
                   counters, ctx, sink, exit_code, ends, wlog>>

\* line 222: trails.update(_)
update_fill ==
    /\ Alive
    /\ timer.pc = "cleared"
    /\ trails' = [trails EXCEPT !["main"] = timer.table]
    /\ timer' = [timer EXCEPT !.pc = "resched", !.table = EmptyDict]
    /\ trace' = Disturb(trace)
    /\ UNCHANGED <<main, _multiprocessing, _datalink, _count, _n, _buffer, forked, widx,
                   counters, ctx, sink, exit_code, ends, wlog>>

\* mutant: the cache is loaded whenever the fetch returned nothing
update_fallback_always ==
    /\ Alive
    /\ timer.pc = "got"
    /\ timer.table = EmptyDict
    /\ trails' = [trails EXCEPT !["main"] = load_trails]
    /\ trace' = Disturb(trace)
    /\ timer' = [timer EXCEPT !.pc = "resched"]
    /\ UNCHANGED <<main, _multiprocessing, _datalink, _count, _n, _buffer, forked, widx,
                   counters, ctx, sink, exit_code, ends, wlog>>

\* lines 223-224: elif not trails: trails.update(load_trails())
update_fallback ==
    /\ Alive
    /\ timer.pc = "got"
    /\ timer.table = EmptyDict
    /\ IF trails["main"] = EmptyDict
       THEN /\ trails' = [trails EXCEPT !["main"] = load_trails]
            /\ trace' = Disturb(trace)
       ELSE UNCHANGED <<trails, trace>>
    /\ timer' = [timer EXCEPT !.pc = "resched"]
    /\ UNCHANGED <<main, _multiprocessing, _datalink, _count, _n, _buffer, forked, widx,
                   counters, ctx, sink, exit_code, ends, wlog>>

\* line 224, when load_trails() raises
update_fallback_raise ==
    /\ Alive
    /\ timer.pc = "got"
    /\ timer.table = EmptyDict
    /\ trails["main"] = EmptyDict
    /\ timer' = [timer EXCEPT !.pc = "dead"]
    /\ IF main = "init" THEN Unhandled ELSE UNCHANGED <<main, exit_code>>
    /\ UNCHANGED <<_multiprocessing, _datalink, _count, _n, _buffer, forked, widx,
                   trails, counters, ctx, sink, trace, ends, wlog>>

\* lines 226-228: the next tick is scheduled; the call of line 230 returns
update_resched ==
    /\ Alive
    /\ timer.pc = "resched"
    /\ timer' = [timer EXCEPT !.pc = "wait", !.ticks = @ + 1]
    /\ main' = IF main = "init" THEN "sudo" ELSE main
    /\ UNCHANGED <<_multiprocessing, _datalink, _count, _n, _buffer, forked, widx,
                   trails, counters, ctx, sink, trace, exit_code, ends, wlog>>

\* the Timer thread runs update_timer after UPDATE_PERIOD
timer_fire ==
    /\ Alive
    /\ timer.pc = "wait"
    /\ timer.ticks < MaxTicks
    /\ timer' = [timer EXCEPT !.pc = "start"]
    /\ UNCHANGED <<main, _multiprocessing, _datalink, _count, _n, _buffer, forked, widx,
                   trails, counters, ctx, sink, trace, exit_code, ends, wlog>>

(***************************************************************************)
(* init, lines 232-264, and _init_multiprocessing, lines 274-290           *)
(***************************************************************************)
\* lines 234-235: if check_sudo() is False: exit(...)
init_check_sudo ==
    /\ main = "sudo"
    /\ \E ok \in BOOLEAN :
          IF ok THEN main' = "devs" /\ UNCHANGED exit_code ELSE exit
    /\ UNCHANGED <<_multiprocessing, _datalink, _count, _n, _buffer, forked, widx,
                   trails, counters, ctx, timer, sink, trace, ends, wlog>>

\* lines 240-242: if config.MONITOR_INTERFACE not in pcapy.findalldevs(): exit(...)
init_findalldevs ==
    /\ main = "devs"
    /\ \E found \in BOOLEAN :
          IF found THEN main' = "open" /\ UNCHANGED exit_code ELSE exit
    /\ UNCHANGED <<_multiprocessing, _datalink, _count, _n, _buffer, forked, widx,
                   trails, counters, ctx, timer, sink, trace, ends, wlog>>

\* what pcapy.open_live does: it returns, or raises a socket.error whose text
\* holds "permitted", holds "No such device", or holds neither
OpenResults == {"opened", "permitted", "No such device", "other"}

\* lines 245-253
init_open_live ==
    /\ main = "open"
    /\ \E r \in OpenResults :
          CASE r = "opened" -> main' = "datalink" /\ UNCHANGED exit_code
            [] r \in {"permitted", "No such device"} -> exit
            [] OTHER -> Unhandled
    /\ UNCHANGED <<_multiprocessing, _datalink, _count, _n, _buffer, forked, widx,
                   trails, counters, ctx, timer, sink, trace, ends, wlog>>

\* link types _cap.datalink() reports here: Ethernet, and one the sensor rejects
LinkTypes == {DLT_EN10MB, DLT_NULL}

\* lines 259-261
init_datalink ==
    /\ main = "datalink"
    /\ \E dl \in LinkTypes :
          /\ _datalink' = dl
          /\ IF dl \in {DLT_EN10MB, DLT_LINUX_SLL}
             THEN main' = "fork" /\ UNCHANGED exit_code
             ELSE exit
    /\ UNCHANGED <<_multiprocessing, _count, _n, _buffer, forked, widx,
                   trails, counters, ctx, timer, sink, trace, ends, wlog>>

\* lines 263-264 and 282-290: the workers are forked with a copy of the
\* parent's memory
init_rest ==
    /\ main = "fork"
    /\ main' = "loop"
    /\ IF _multiprocessing
       THEN /\ forked' = TRUE
            /\ trails' = [p \in Procs |-> trails["main"]]
            /\ counters' = [p \in Procs |-> counters["main"]]
       ELSE UNCHANGED <<forked, trails, counters>>
    /\ UNCHANGED <<_multiprocessing, _datalink, _count, _n, _buffer, widx, ctx, timer,
                   sink, trace, exit_code, ends, wlog>>

(***************************************************************************)
(* monitor.packet_handler, lines 297-309                                   *)
(***************************************************************************)
Capture(f, sec, c) ==
    Append(trace, TraceEntry(f, sec, trails["main"], timer.pc # "cleared", c))

\* line 306: _process_packet(packet, sec, usec) in the capture thread
packet_handler_inline(f, sec) ==
    /\ main = "loop"
    /\ ~_multiprocessing
    /\ LET c == Start(f, sec, 0, _count, _datalink)
       IN  /\ ctx' = [ctx EXCEPT !["main"] = c]
           /\ trace' = Capture(f, sec, c)
    /\ main' = "packet"
    /\ UNCHANGED <<_multiprocessing, _datalink, _count, _n, _buffer, forked, widx, trails,
                   counters, timer, sink, exit_code, ends, wlog>>

\* line 307, after _process_packet returned; an exception that escaped it is
\* not a socket.timeout and leaves _cap.loop
packet_handler_return ==
    /\ main = "packet"
    /\ ctx["main"].pc = "done"
    /\ IF ctx["main"].result = "escaped"
       THEN /\ main' = "crashed"
            /\ UNCHANGED _count
       ELSE /\ main' = "loop"
            /\ _count' = _count + 1
    /\ ctx' = [ctx EXCEPT !["main"] = Idle]
    /\ UNCHANGED <<_multiprocessing, _datalink, _n, _buffer, forked, widx, trails, counters,
                   timer, sink, trace, exit_code, ends, wlog>>

\* core.parallel.write_block(buffer, i, block, marker): the block of index i
\* goes to slot i mod SLOTS, over whatever the slot holds
write_block(buffer, i, block) == [buffer EXCEPT ![i % Slots] = [block EXCEPT !.idx = i]]

\* mutant: the handler goes on to publish without having written the block
packet_handler_write_skips(f, sec) ==
    /\ main = "loop"
    /\ _multiprocessing
    /\ trace' = Capture(f, sec, Idle)
    /\ main' = "written"
    /\ UNCHANGED <<_multiprocessing, _datalink, _count, _n, _buffer, forked, widx, trails,
                   counters, ctx, timer, sink, exit_code, ends, wlog>>

\* line 303: write_block(_buffer, _count, struct.pack("=II", sec, usec) + packet)
packet_handler_write(f, sec) ==
    /\ main = "loop"
    /\ _multiprocessing
    /\ _buffer' = write_block(_buffer, _count,
                              [EmptyBlock EXCEPT !.marker = "DATA", !.sec = sec, !.frame = f])
    /\ wlog' = Append(wlog, [idx |-> _count, marker |-> "DATA"])
    /\ trace' = Capture(f, sec, Idle)
    /\ main' = "written"
    /\ UNCHANGED <<_multiprocessing, _datalink, _count, _n, forked, widx, trails, counters,
                   ctx, timer, sink, exit_code, ends>>

\* lines 304 and 307: _n.value = _count + 1; _count += 1
packet_handler_publish ==
    /\ main = "written"
    /\ _n' = c_int(_count + 1)
    /\ _count' = _count + 1
    /\ main' = "loop"
    /\ UNCHANGED <<_multiprocessing, _datalink, _buffer, forked, widx, trails, counters,
                   ctx, timer, sink, trace, exit_code, ends, wlog>>

(***************************************************************************)
(* monitor, lines 311-321                                                  *)
(***************************************************************************)
\* line 313: Ctrl-C while _cap.loop waits for a frame or runs the handler in
\* multi-worker mode
KeyboardInterrupt ==
    /\ main \in {"loop", "written"}
    /\ main' = "finally"
    /\ ends' = 0
    /\ UNCHANGED <<_multiprocessing, _datalink, _count, _n, _buffer, forked, widx, trails,
                   counters, ctx, timer, sink, trace, exit_code, wlog>>

\* line 318: write_block(_buffer, _n.value, "", BLOCK_MARKER.END)
finally_write ==
    /\ main = "finally"
    /\ _multiprocessing
    /\ ends < NWorkers
    /\ _buffer' = write_block(_buffer, _n, [EmptyBlock EXCEPT !.marker = "END"])
    /\ wlog' = Append(wlog, [idx |-> _n, marker |-> "END"])
    /\ main' = "ended"
    /\ UNCHANGED <<_multiprocessing, _datalink, _count, _n, forked, widx, trails, counters,
                   ctx, timer, sink, trace, exit_code, ends>>

\* line 319: _n.value = _n.value + 1
finally_publish ==
    /\ main = "ended"
    /\ _n' = c_int(_n + 1)
    /\ ends' = ends + 1
    /\ main' = "finally"
    /\ UNCHANGED <<_multiprocessing, _datalink, _count, _buffer, forked, widx, trails,
                   counters, ctx, timer, sink, trace, exit_code, wlog>>

\* multiprocessing.active_children()
active_children == {w \in Workers : forked /\ ctx[w].pc # "exited"}

\* lines 320-321 and the return of monitor() and main(): exit status 0
monitor_return ==
    /\ main = "finally"
    /\ _multiprocessing => (ends = NWorkers /\ active_children = {})
    /\ main' = "returned"
    /\ UNCHANGED <<_multiprocessing, _datalink, _count, _n, _buffer, forked, widx, trails,
                   counters, ctx, timer, sink, trace, exit_code, ends, wlog>>

(***************************************************************************)
(* One step of _process_packet in process p                                *)
(***************************************************************************)
\* mutant: the trail that matched is removed from the dictionary
decode_step_consumes(p) ==
    /\ ctx[p].pc \in {"run", "post"}
    /\ LET r == Step(ctx[p], trails[p], counters[p], _datalink)
           i == ctx[p].idx + 1
       IN  /\ ctx' = [ctx EXCEPT ![p] = r.ctx]
           /\ counters' = [counters EXCEPT ![p] = r.ctrs]
           /\ sink' = log_event(sink, ctx[p].idx, r.emit)
           /\ trails' = [trails EXCEPT ![p] = IF Len(r.emit) > 0 THEN EmptyDict ELSE @]
           /\ trace' = [trace EXCEPT ![i].obs = @ \cup r.obs,
                                     ![i].done = (r.ctx.pc = "done"),
                                     ![i].result = r.ctx.result]
    /\ UNCHANGED <<main, _multiprocessing, _datalink, _count, _n, _buffer, forked, widx,
                   timer, exit_code, ends, wlog>>

decode_step(p) ==
    /\ ctx[p].pc \in {"run", "post"}
    /\ LET r == Step(ctx[p], trails[p], counters[p], _datalink)
           i == ctx[p].idx + 1
       IN  /\ ctx' = [ctx EXCEPT ![p] = r.ctx]
           /\ counters' = [counters EXCEPT ![p] = r.ctrs]
           /\ sink' = log_event(sink, ctx[p].idx, r.emit)
           /\ trace' = [trace EXCEPT ![i].obs = @ \cup r.obs,
                                     ![i].done = (r.ctx.pc = "done"),
                                     ![i].result = r.ctx.result]
    /\ UNCHANGED <<main, _multiprocessing, _datalink, _count, _n, _buffer, forked, widx,
                   trails, timer, exit_code, ends, wlog>>

(***************************************************************************)
(* core.parallel.worker                                                    *)
(***************************************************************************)
\* the worker has seen _n > i and the DATA marker of its block; the frame it
\* decodes is the one the slot holds
worker_read(w) ==
    /\ forked
    /\ ctx[w].pc = "idle"
    /\ widx[w] < _n
    /\ LET b == _buffer[widx[w] % Slots]
       IN  /\ b.marker = "DATA"
           /\ ctx' = [ctx EXCEPT ![w] = Start(b.frame, b.sec, b.usec, b.idx, _datalink)]
           /\ trace' = [trace EXCEPT ![b.idx + 1].done = (ctx'[w].pc = "done"),
                                     ![b.idx + 1].result = ctx'[w].result]
    /\ UNCHANGED <<main, _multiprocessing, _datalink, _count, _n, _buffer, forked, widx,
                   trails, counters, timer, sink, exit_code, ends, wlog>>

\* the callback returned: the marker is cleared and the worker moves on
worker_next(w) ==
    /\ ctx[w].pc = "done"
    /\ w \in Workers
    /\ _buffer' = [_buffer EXCEPT ![widx[w] % Slots].marker = "EMPTY"]
    /\ widx' = [widx EXCEPT ![w] = @ + NWorkers]
    /\ ctx' = [ctx EXCEPT ![w] = Idle]
    /\ UNCHANGED <<main, _multiprocessing, _datalink, _count, _n, forked, trails, counters,
                   timer, sink, trace, exit_code, ends, wlog>>

\* the worker has seen _n > i and the END marker of its block: it leaves its loop
worker_exit(w) ==
    /\ forked
    /\ ctx[w].pc = "idle"
    /\ widx[w] < _n
    /\ _buffer[widx[w] % Slots].marker = "END"
    /\ ctx' = [ctx EXCEPT ![w] = [Idle EXCEPT !.pc = "exited"]]
    /\ UNCHANGED <<main, _multiprocessing, _datalink, _count, _n, _buffer, forked, widx,
                   trails, counters, timer, sink, trace, exit_code, ends, wlog>>

(***************************************************************************)
(* Frames                                                                  *)
(***************************************************************************)
RECURSIVE name_len(_)
name_len(labels) ==
    IF Len(labels) = 0 THEN 0 ELSE Len(labels[1]) + 1 + name_len(Tail(labels))

\* bytes of a DNS message with one question: header, name, root label, type, class
dns_len(labels) == 12 + name_len(labels) + 1 + 4

\* Frames carry two bytes of padding after the IP datagram, so that they are
\* whole for both link types.
TcpFrame(src, dst, sport, dport, flags, http, plen) ==
    [NoFrame EXCEPT !.caplen = ETH_LENGTH + 20 + 20 + plen + 2, !.eth_protocol = IPPROTO,
                    !.ihl = 5, !.ip_length = 20 + 20 + plen, !.protocol = IPPROTO_TCP,
                    !.src_ip = src, !.dst_ip = dst, !.src_port = sport,
                    !.dst_port = dport, !.doff = 5, !.flags = flags, !.http = http]

UdpFrame(src, dst, sport, dport, dns, dlen) ==
    [NoFrame EXCEPT !.caplen = ETH_LENGTH + 20 + 8 + dlen + 2, !.eth_protocol = IPPROTO,
                    !.ihl = 5, !.ip_length = 20 + 8 + dlen, !.protocol = IPPROTO_UDP,
                    !.src_ip = src, !.dst_ip = dst, !.src_port = sport,
                    !.dst_port = dport, !.dns = dns]

OtherFrame(src, dst, protocol) ==
    [NoFrame EXCEPT !.caplen = ETH_LENGTH + 20 + 8 + 2, !.eth_protocol = IPPROTO,
                    !.ihl = 5, !.ip_length = 20 + 8, !.protocol = protocol,
                    !.src_ip = src, !.dst_ip = dst]

Dns(hi, lo, qd, labels, type, class) ==
    [flags_hi |-> hi, flags_lo |-> lo, qdcount |-> qd, labels |-> labels,
     type |-> type, class |-> class]

Http(uri, host) ==
    [has_line |-> TRUE, spaces |-> 2, has_http |-> TRUE, uri |-> uri,
     has_host |-> TRUE, host |-> host]

L_sbe == << <<"s">>, <<"b">>, <<"e">> >>
L_be == << <<"b">>, <<"e">> >>
L_e == << <<"e">> >>
L_x == << <<"x">> >>
L_wwe == << <<"w", "w">>, <<"e">> >>
\* one label holding a dot
L_dot == << <<"s", ".", "b">>, <<"e">> >>

QueryFrame(src, dst, labels) ==
    UdpFrame(src, dst, 55555, 53, Dns(1, 0, 1, labels, 1, 1), dns_len(labels))

\* a name-error response: QR and RD set, RA set with RCODE 3
NxFrame(src, dst, labels) ==
    UdpFrame(src, dst, 53, 55555, Dns(129, 131, 1, labels, 1, 1), dns_len(labels))

SynFrame(src, dst) == TcpFrame(src, dst, 55555, 80, 2, NoHttp, 0)

(***************************************************************************)
(* Spec: the sensor as a whole, from init() on                             *)
(***************************************************************************)
WireFrames == {SynFrame(IP_B, IP_A), QueryFrame(IP_B, IP_A, L_sbe)}
WireSecs == {1000}

Init ==
    /\ main = "init"
    /\ _multiprocessing \in BOOLEAN
    /\ _datalink = DLT_NONE
    /\ _count = 0
    /\ _n = 0
    /\ _buffer = [i \in 0..(Slots - 1) |-> EmptyBlock]
    /\ forked = FALSE
    /\ widx = [w \in Workers |-> lane(w)]
    /\ trails = [p \in Procs |-> EmptyDict]
    /\ counters = [p \in Procs |-> EmptyDict]
    /\ ctx = [p \in Procs |-> Idle]
    /\ timer = [pc |-> "start", table |-> EmptyDict, ticks |-> 0,
                fetched |-> EmptyDict, before |-> EmptyDict]
    /\ sink = <<>>
    /\ trace = <<>>
    /\ exit_code = 0
    /\ ends = 0
    /\ wlog = <<>>

Next ==
    \/ update_call
    \/ update_raise
    \/ update_clear
    \/ update_fill
    \/ update_fallback
    \/ update_fallback_raise
    \/ update_resched
    \/ timer_fire
    \/ init_check_sudo
    \/ init_findalldevs
    \/ init_open_live
    \/ init_datalink
    \/ init_rest
    \/ /\ _count < MaxFrames
       /\ \E f \in WireFrames, sec \in WireSecs : packet_handler_inline(f, sec)
    \/ packet_handler_return
    \/ /\ _count < MaxFrames
       /\ \E f \in WireFrames, sec \in WireSecs : packet_handler_write(f, sec)
    \/ packet_handler_publish
    \/ \E p \in Procs : decode_step(p)
    \/ \E w \in Workers : worker_read(w)
    \/ \E w \in Workers : worker_next(w)

Spec == Init /\ [][Next]_vars

(***************************************************************************)
(* Claims about the sensor as a whole                                      *)
(***************************************************************************)
\* the complete tables a reader may legitimately see
Snapshots == Tables \cup {load_trails}

\* C1: every lookup made while one packet is processed sees one and the same
\* dictionary, and that dictionary is a complete snapshot (never the emptied
\* or a mixed one).
C1_OneCompleteSnapshot ==
    \A i \in DOMAIN trace :
        /\ Cardinality(trace[i].obs) <= 1
        /\ trace[i].obs \subseteq Snapshots

\* C2: a frame captured after a swap has completed, and decoded with no
\* further swap under way, is matched against the snapshot that was current
\* in the capture process when it was captured -- in inline mode and in
\* multi-worker mode.
C2_FrameUsesCurrentSnapshot ==
    \A i \in DOMAIN trace :
        (trace[i].done /\ trace[i].clean) => trace[i].obs \subseteq {trace[i].cap}

\* the same statement for inline mode alone
C2_InlineOnly == ~_multiprocessing => C2_FrameUsesCurrentSnapshot

\* C9: the records of one frame are contiguous in the event log.
C9_RecordsContiguous ==
    \A i, j, k \in 1..Len(sink) :
        (i < j /\ j < k /\ sink[i][1] = sink[k][1]) => sink[j][1] = sink[i][1]

(***************************************************************************)
(* SpecPD: _process_packet called inline on one frame, for every frame,    *)
(* trail table and link type of the sets below; the updater does not run.  *)
(***************************************************************************)
\* length bound of the enumerated request URIs
MaxUriLen == 3
\* keys per trail table of the URL inputs
MaxUrlKeys == 2

SeqsUpTo(A, len) == UNION {[1..k -> A] : k \in 0..len}
SubsetsUpTo(S, k) == {T \in SUBSET S : Cardinality(T) <= k}

Input(f, store, ctrs, sec, dl) ==
    [frame |-> f, store |-> store, ctrs |-> ctrs, sec |-> sec, datalink |-> dl]

Datalinks == {DLT_EN10MB, DLT_LINUX_SLL}
IPStores == {Table(ip, {}, {}, "badhost", "feedA") : ip \in SUBSET {IP_A, IP_B}}
IPPairs == {<<IP_A, IP_B>>, <<IP_B, IP_A>>, <<IP_C, IP_A>>, <<IP_A, IP_C>>}

\* SYN, SYN+ACK, ACK, PSH+ACK, SYN+PSH, no flag
TcpFlags == {2, 18, 16, 24, 10, 0}
IPFrames ==
    {TcpFrame(a[1], a[2], 55555, 80, fl, NoHttp, 0) : a \in IPPairs, fl \in TcpFlags}
    \cup {UdpFrame(a[1], a[2], pp[1], pp[2], NoDns, 8) :
            a \in IPPairs, pp \in {<<55555, 9999>>, <<53, 55555>>, <<55555, 53>>}}
    \cup {OtherFrame(a[1], a[2], pr) : a \in IPPairs, pr \in {IPPROTO_ICMP, 47}}
    \cup {[OtherFrame(IP_B, IP_A, IPPROTO_ICMP) EXCEPT !.eth_protocol = 2054]}
IPInputs ==
    {Input(f, st, EmptyDict, 1000, dl) : f \in IPFrames, st \in IPStores, dl \in Datalinks}

DnsStores ==
    {Table(ip, dns, {}, "pY", "sY") : ip \in {{}, {IP_A}}, dns \in SUBSET {N_e, N_be, N_sbe}}
LabelSets == {<<>>, L_sbe, L_be, L_e, L_x, L_wwe, L_dot}
DnsFrames ==
    {UdpFrame(IP_B, IP_A, pp[1], pp[2], Dns(fl[1], fl[2], qd, ls, tc[1], tc[2]), dns_len(ls)) :
        pp \in {<<55555, 53>>, <<53, 55555>>},
        fl \in {<<1, 0>>, <<0, 0>>, <<129, 131>>, <<129, 128>>},
        qd \in {0, 1}, ls \in LabelSets,
        tc \in {<<1, 1>>, <<12, 1>>, <<1, 3>>, <<28, 1>>}}
DnsCounters == {EmptyDict, (N_sbe :> <<0, NO_SUCH_NAME_PER_HOUR_THRESHOLD>>)}
DnsInputs ==
    {Input(f, st, ctrs, 1000, DLT_EN10MB) : f \in DnsFrames, st \in DnsStores,
                                            ctrs \in DnsCounters}

U_h == <<"h">>
U_a == <<"/", "a">>
U_aa == <<"/", "a", "/", "a">>
U_a_a == <<"/", "a", ".", "a">>
U_aa_a == <<"/", "a", "/", "a", ".", "a">>
UrlKeys == {U_a, U_aa, U_a_a, U_aa_a, U_h, U_h \o U_a, U_h \o U_aa, U_h \o U_aa_a}
UrlStores == {Table({}, {}, url, "pX", "sX") : url \in SubsetsUpTo(UrlKeys, MaxUrlKeys)}
Uris ==
    SeqsUpTo({"/", "a", ".", "?"}, MaxUriLen)
    \cup {U_aa, U_aa_a, U_aa \o <<"/">>, U_aa \o <<"/", "/">>, U_aa_a \o <<"?", "/", "a">>,
          <<"/", "a", ".", "a", "/", "a">>, <<"/", "a", "/", ".", "a">>,
          U_aa \o U_a, U_aa_a \o <<".", "a">>}
HttpFrame(uri, dport, flags, plen) ==
    TcpFrame(IP_B, IP_A, 55555, dport, flags, Http(uri, U_h), plen)
UrlFrames ==
    {HttpFrame(uri, 80, 24, 40) : uri \in Uris}
    \cup {HttpFrame(U_a, 8080, 24, 40), HttpFrame(U_a, 80, 16, 40), HttpFrame(U_a, 80, 24, 0)}
    \cup {[HttpFrame(U_a, 80, 24, 40) EXCEPT !.http = h] :
            h \in {[Http(U_a, U_h) EXCEPT !.has_line = FALSE],
                   [Http(U_a, U_h) EXCEPT !.spaces = 3],
                   [Http(U_a, U_h) EXCEPT !.has_http = FALSE],
                   [Http(U_a, U_h) EXCEPT !.has_host = FALSE]}}
UrlInputs ==
    {Input(f, st, EmptyDict, 1000, DLT_EN10MB) : f \in UrlFrames, st \in UrlStores}

\* frames cut short, or with a header that lies about the lengths
ErrBase ==
    {SynFrame(IP_B, IP_A), QueryFrame(IP_B, IP_A, L_sbe), NxFrame(IP_B, IP_A, L_wwe),
     QueryFrame(IP_B, IP_A, L_wwe), OtherFrame(IP_B, IP_A, IPPROTO_ICMP),
     HttpFrame(U_a, 80, 24, 40)}
ErrFrames ==
    {[f EXCEPT !.caplen = len] : f \in ErrBase, len \in 0..70}
    \cup {[f EXCEPT !.ip_length = len] : f \in ErrBase, len \in {0, 20, 24, 28, 34, 40, 45}}
    \cup {[f EXCEPT !.ihl = h] : f \in ErrBase, h \in {0, 6, 15}}
    \cup {[f EXCEPT !.doff = d] : f \in ErrBase, d \in {0, 15}}
ErrInputs ==
    {Input(f, Table({IP_A}, {N_be}, {U_a}, "pZ", "sZ"), EmptyDict, 1000, dl) :
        f \in ErrFrames, dl \in Datalinks}

PDInputs == IPInputs \cup DnsInputs \cup UrlInputs \cup ErrInputs

InitPD ==
    \E in \in PDInputs :
        LET c == Start(in.frame, in.sec, 0, 0, in.datalink)
        IN  /\ main = "packet"
            /\ _multiprocessing = FALSE
            /\ _datalink = in.datalink
            /\ _count = 0
            /\ _n = 0
            /\ _buffer = [i \in 0..(Slots - 1) |-> EmptyBlock]
            /\ forked = FALSE
            /\ widx = [w \in Workers |-> lane(w)]
            /\ trails = [p \in Procs |-> in.store]
            /\ counters = [p \in Procs |-> in.ctrs]
            /\ ctx = [p \in Procs |-> IF p = "main" THEN c ELSE Idle]
            /\ timer = [pc |-> "wait", table |-> EmptyDict, ticks |-> 1,
                        fetched |-> EmptyDict, before |-> EmptyDict]
            /\ exit_code = 0
            /\ ends = 0
            /\ wlog = <<>>
            /\ sink = <<>>
            /\ trace = <<TraceEntry(in.frame, in.sec, in.store, TRUE, c)>>

NextPD ==
    \/ decode_step("main")
    \/ packet_handler_return

SpecPD == InitPD /\ [][NextPD]_vars

(***************************************************************************)
(* Claims about the decoder.  They are stated per captured frame, over the *)
(* history `trace` and the event log, with their own reading of the frame. *)
(***************************************************************************)
\* positions in the event log of the records of frame i with trail kind `kind`
FrameAlerts(i, kind) ==
    {j \in 1..Len(sink) : sink[j][1] = i - 1 /\ sink[j][2].kind = kind}
FrameRecords(i) == {j \in 1..Len(sink) : sink[j][1] = i - 1}

IsIPv4(f) == f.eth_protocol = IPPROTO /\ packet_len(f, _datalink) >= ETH_LENGTH + 20
\* the captured bytes hold the whole IP datagram
Whole(f) == IsIPv4(f) /\ packet_len(f, _datalink) >= ETH_LENGTH + f.ip_length
\* a TCP segment whose header up to the flags byte is there
TcpSegment(f) ==
    /\ IsIPv4(f)
    /\ f.protocol = IPPROTO_TCP
    /\ Min(packet_len(f, _datalink), ETH_LENGTH + f.ip_length) >= ETH_LENGTH + f.ihl * 4 + 14

\* C3: at most one IP alert per frame; its trail is dst_ip when dst_ip is a key
\* of TS.IP, else src_ip, which then is a key; a TCP frame whose flags byte is
\* not 0x02 yields none, and a SYN whose dst_ip or src_ip is a key yields one.
C3_IPAlert ==
    \A i \in DOMAIN trace :
        trace[i].done =>
            LET f == trace[i].frame
                keys == DOMAIN trace[i].cap[TRAIL.IP]
                hits == FrameAlerts(i, TRAIL.IP)
            IN  /\ Cardinality(hits) <= 1
                /\ \A j \in hits :
                      /\ sink[j][2].trail = (IF f.dst_ip \in keys THEN f.dst_ip ELSE f.src_ip)
                      /\ sink[j][2].trail \in keys
                /\ (f.protocol = IPPROTO_TCP /\ f.flags # 2) => hits = {}
                /\ (TcpSegment(f) /\ f.flags = 2 /\ {f.src_ip, f.dst_ip} \cap keys # {})
                       => Cardinality(hits) = 1

\* a SYN from a listed source to an unlisted destination was logged with src_ip
C3_Witness ==
    /\ trace[1].done
    /\ trace[1].frame.protocol = IPPROTO_TCP
    /\ trace[1].frame.flags = 2
    /\ Len(sink) = 1
    /\ sink[1][2].kind = TRAIL.IP
    /\ sink[1][2].trail = trace[1].frame.src_ip
    /\ trace[1].frame.dst_ip \notin DOMAIN trace[1].cap[TRAIL.IP]

\* a UDP datagram to port 53 whose DNS header says QDCOUNT = 0
NoQuestionQuery(f) ==
    /\ f.eth_protocol = IPPROTO
    /\ f.protocol = IPPROTO_UDP
    /\ f.dst_port = 53
    /\ f.dns.qdcount = 0

\* C4 as claimed: a UDP DNS query with QDCOUNT = 0 produces no alert record.
C4_NoAlertAtAll ==
    \A i \in DOMAIN trace :
        (trace[i].done /\ NoQuestionQuery(trace[i].frame)) => FrameRecords(i) = {}

\* C4 as amended: a UDP DNS query with QDCOUNT = 0 produces no DNS alert
\* record (neither a trail match nor the heuristic one); the only record it
\* can produce is the one IP alert of the UDP path.
C4_NoDnsAlert ==
    \A i \in DOMAIN trace :
        (trace[i].done /\ NoQuestionQuery(trace[i].frame)) =>
            /\ FrameAlerts(i, TRAIL.DNS) = {}
            /\ FrameRecords(i) = FrameAlerts(i, TRAIL.IP)
            /\ Cardinality(FrameRecords(i)) <= 1

\* a QDCOUNT = 0 query that carries a listed name and goes to a listed address
C4_Witness ==
    /\ trace[1].done
    /\ NoQuestionQuery(trace[1].frame)
    /\ trace[1].frame.dns.flags_hi = 1
    /\ trace[1].frame.dns.labels = L_be
    /\ N_be \in DOMAIN trace[1].cap[TRAIL.DNS]
    /\ Len(sink) = 1
    /\ sink[1][2].kind = TRAIL.IP

\* the question name as a dotted string
RECURSIVE DottedName(_)
DottedName(labels) ==
    IF Len(labels) = 0 THEN <<>>
    ELSE IF Len(labels) = 1 THEN labels[1]
    ELSE labels[1] \o <<".">> \o DottedName(Tail(labels))

\* a whole standard query with one question
StandardQuery(f) ==
    /\ Whole(f)
    /\ f.protocol = IPPROTO_UDP
    /\ f.ihl = 5
    /\ f.dst_port = 53 \/ f.src_port = 53
    /\ f.dns.flags_hi = 1
    /\ f.dns.qdcount > 0
    /\ f.ip_length = 20 + 8 + dns_len(f.dns.labels)

\* where the suffixes of name q start: at 1 and after every dot
SuffixStarts(q) == {1} \cup {k + 1 : k \in {j \in 1..Len(q) : q[j] = "."}}

\* C5: a standard query with TYPE # 12 and CLASS = 1 yields exactly one DNS
\* alert when some suffix of the name is a key of TS.DNS, for the longest such
\* suffix: the name itself, or "(prefix)suffix" with prefix + suffix = name;
\* otherwise, or when TYPE = 12 or CLASS # 1, it yields no DNS alert.
C5_DnsSuffix ==
    \A i \in DOMAIN trace :
        (trace[i].done /\ StandardQuery(trace[i].frame)) =>
            LET f == trace[i].frame
                map == trace[i].cap[TRAIL.DNS]
                q == DottedName(f.dns.labels)
                starts == {k \in SuffixStarts(q) : SubSeq(q, k, Len(q)) \in DOMAIN map}
                hits == FrameAlerts(i, TRAIL.DNS)
            IN  IF f.dns.type # 12 /\ f.dns.class = 1 /\ starts # {}
                THEN LET k == CHOOSE x \in starts : \A y \in starts : x <= y
                         suffix == SubSeq(q, k, Len(q))
                         prefix == SubSeq(q, 1, k - 1)
                     IN  /\ Cardinality(hits) = 1
                         /\ \A j \in hits :
                               /\ sink[j][2].trail =
                                     (IF k = 1 THEN q
                                      ELSE <<"(">> \o prefix \o <<")">> \o suffix)
                               /\ prefix \o suffix = q
                               /\ sink[j][2].info = map[suffix][1]
                               /\ sink[j][2].source = map[suffix][2]
                ELSE hits = {}

\* s.b.e was matched by the key b.e although the shorter e is a key too
C5_Witness ==
    /\ trace[1].done
    /\ StandardQuery(trace[1].frame)
    /\ trace[1].frame.dns.labels = L_sbe
    /\ DOMAIN trace[1].cap[TRAIL.DNS] = {N_be, N_e}
    /\ FrameAlerts(1, TRAIL.DNS) # {}
    /\ \A j \in FrameAlerts(1, TRAIL.DNS) :
          sink[j][2].trail = <<"(", "s", ".", ")", "b", ".", "e">>

\* an HTTP request line and Host header in a PSH segment to port 80
HttpRequest(f) ==
    /\ TcpSegment(f)
    /\ Whole(f)
    /\ f.ihl = 5
    /\ f.doff = 5
    /\ f.ip_length > 20 + 20
    /\ bit_set(f.flags, 8)
    /\ f.dst_port = 80
    /\ f.http.has_line /\ f.http.spaces = 2 /\ f.http.has_http /\ f.http.has_host

\* the URI up to its first '?'
BeforeQuery(u) ==
    SubSeq(u, 1, CHOOSE k \in 0..Len(u) :
                    /\ \A i \in 1..k : u[i] # "?"
                    /\ k = Len(u) \/ u[k + 1] = "?")
\* without its trailing slashes
NoTrailingSlash(u) ==
    SubSeq(u, 1, CHOOSE k \in 0..Len(u) :
                    /\ k = 0 \/ u[k] # "/"
                    /\ \A i \in (k + 1)..Len(u) : u[i] = "/")
Slashes(u) == {i \in 1..Len(u) : u[i] = "/"}
LastSlash(u) == IF Slashes(u) = {} THEN 0 ELSE SetMax(Slashes(u))
\* the dot that starts the filename extension: the last dot of the last path
\* component, when something other than dots precedes it in that component
ExtensionDot(u) ==
    {d \in (LastSlash(u) + 1)..Len(u) :
        /\ u[d] = "."
        /\ \A i \in (d + 1)..Len(u) : u[i] # "."
        /\ \E i \in (LastSlash(u) + 1)..(d - 1) : u[i] # "."}

\* stripped path, path without extension, path cut at its last '/'
Candidates(uri) ==
    LET path == NoTrailingSlash(BeforeQuery(uri))
    IN  <<path>>
        \o (IF ExtensionDot(path) = {} THEN <<>>
            ELSE <<SubSeq(path, 1, (CHOOSE d \in ExtensionDot(path) : TRUE) - 1)>>)
        \o (IF Cardinality(Slashes(path)) > 1
            THEN <<SubSeq(path, 1, LastSlash(path) - 1)>> ELSE <<>>)

\* the checks in order: checks[2m-1] is candidate m, checks[2m] is host + candidate m
Checks(host, cands) ==
    [x \in 1..(2 * Len(cands)) |->
        IF x % 2 = 1 THEN cands[(x + 1) \div 2] ELSE host \o cands[x \div 2]]

\* C8: an HTTP request yields exactly one URL alert, for the first check that
\* hits in the order candidate 1 bare, candidate 1 with host, candidate 2 bare,
\* ...; and none when no check hits.
C8_UrlFirstHit ==
    \A i \in DOMAIN trace :
        (trace[i].done /\ HttpRequest(trace[i].frame)) =>
            LET f == trace[i].frame
                map == trace[i].cap[TRAIL.URL]
                checks == Checks(f.http.host, Candidates(f.http.uri))
                hit == {x \in DOMAIN checks : checks[x] \in DOMAIN map}
                found == FrameAlerts(i, TRAIL.URL)
            IN  IF hit = {} THEN found = {}
                ELSE LET x == CHOOSE y \in hit : \A z \in hit : y <= z
                     IN  /\ Cardinality(found) = 1
                         /\ \A j \in found :
                               /\ sink[j][2].trail = checks[x]
                               /\ sink[j][2].info = map[checks[x]][1]
                               /\ sink[j][2].source = map[checks[x]][2]

\* /a/a.a with keys /a/a and h/a/a.a: the host + path key of the first
\* candidate won over the bare key of the second
C8_Witness ==
    /\ trace[1].done
    /\ HttpRequest(trace[1].frame)
    /\ trace[1].frame.http.uri = U_aa_a
    /\ DOMAIN trace[1].cap[TRAIL.URL] = {U_aa, U_h \o U_aa_a}
    /\ Len(sink) = 1
    /\ sink[1][2].trail = U_h \o U_aa_a

\* C10: no exception leaves _process_packet: inside packet_handler the decoder
\* can always take its next step or has returned, and after it the frame is
\* counted and the capture loop takes the next one; a frame shorter than
\* ETH_LENGTH is logged as a decode error and yields no alert.
C10_DecodeErrorsContained ==
    /\ main # "crashed"
    /\ \A p \in Procs : ctx[p].result # "escaped"
    /\ main = "packet" => ctx["main"].pc \in {"run", "post", "done"}
    /\ main = "loop" => _count = Len(trace)
    /\ \A i \in DOMAIN trace :
          (trace[i].done /\ packet_len(trace[i].frame, _datalink) < ETH_LENGTH) =>
              /\ trace[i].result = "caught"
              /\ FrameRecords(i) = {}

\* a frame of 13 bytes was decoded and the loop is back for the next frame
C10_Witness ==
    /\ main = "loop"
    /\ _count = 1
    /\ trace[1].frame.caplen = ETH_LENGTH - 1
    /\ trace[1].result = "caught"

(***************************************************************************)
(* SpecHS: the inline decoder fed with name-error responses for two names, *)
(* with timestamps in any order, starting from empty counters.             *)
(***************************************************************************)
NxFrames == {NxFrame(IP_A, IP_B, L_be), NxFrame(IP_A, IP_B, L_e)}
\* the last second of hour 0 and two seconds of hour 1
NxSecs == {3599, 3600, 3700}

InitHS ==
    /\ main = "loop"
    /\ _multiprocessing = FALSE
    /\ _datalink = DLT_EN10MB
    /\ _count = 0
    /\ _n = 0
    /\ _buffer = [i \in 0..(Slots - 1) |-> EmptyBlock]
    /\ forked = FALSE
    /\ widx = [w \in Workers |-> lane(w)]
    /\ trails = [p \in Procs |-> TableA]
    /\ counters = [p \in Procs |-> EmptyDict]
    /\ ctx = [p \in Procs |-> Idle]
    /\ timer = [pc |-> "wait", table |-> EmptyDict, ticks |-> 1,
                fetched |-> EmptyDict, before |-> EmptyDict]
    /\ exit_code = 0
    /\ ends = 0
    /\ wlog = <<>>
    /\ sink = <<>>
    /\ trace = <<>>

NextHS ==
    \/ /\ _count < MaxResponses
       /\ \E f \in NxFrames, sec \in NxSecs : packet_handler_inline(f, sec)
    \/ decode_step("main")
    \/ packet_handler_return

SpecHS == InitHS /\ [][NextHS]_vars

\* a whole response with flags QR.. / RA + RCODE 3 and one question
NameError(f) ==
    /\ Whole(f)
    /\ f.protocol = IPPROTO_UDP
    /\ f.ihl = 5
    /\ f.dst_port = 53 \/ f.src_port = 53
    /\ f.dns.flags_hi \div 128 = 1
    /\ f.dns.flags_lo = 131
    /\ f.dns.qdcount > 0
    /\ f.ip_length = 20 + 8 + dns_len(f.dns.labels)

Bucket(i) == trace[i].sec \div 3600
\* the decoded name-error responses for name q among the first i frames
Responses(q, i) ==
    {j \in 1..i : trace[j].done /\ NameError(trace[j].frame)
                  /\ DottedName(trace[j].frame.dns.labels) = q}
\* of those, the ones since the hour bucket last changed
SinceBucketChange(q, i) ==
    LET all == Responses(q, i)
        last == SetMax(all)
        other == {j \in all : Bucket(j) # Bucket(last)}
    IN  {j \in all : \A o \in other : o < j}
\* of those, all the ones with the bucket of the latest
InLatestBucket(q, i) ==
    LET all == Responses(q, i)
    IN  {j \in all : Bucket(j) = Bucket(SetMax(all))}

Heuristic(i) ==
    {j \in FrameRecords(i) : sink[j][2].source = "(heuristic)"}

\* C6: (per decoding process) the k-th response for a name since its hour
\* bucket last changed is logged as "suspicious no such name" iff k exceeds
\* the threshold; so the first response in a different bucket, for which
\* k = 1, logs nothing.
C6_AlertIffOverThreshold ==
    \A i \in DOMAIN trace :
        (trace[i].done /\ NameError(trace[i].frame)) =>
            LET q == DottedName(trace[i].frame.dns.labels)
                k == Cardinality(SinceBucketChange(q, i))
            IN  /\ Cardinality(Heuristic(i)) = (IF k > NO_SUCH_NAME_PER_HOUR_THRESHOLD THEN 1 ELSE 0)
                /\ \A j \in Heuristic(i) :
                      /\ sink[j][2].kind = TRAIL.DNS
                      /\ sink[j][2].trail = q
                      /\ sink[j][2].info = "suspicious no such name"
                /\ FrameRecords(i) = Heuristic(i)

\* responses threshold + 1 and threshold + 2 of one hour were both logged, and
\* a later response of another hour was not
C6_Witness ==
    /\ Len(trace) = NO_SUCH_NAME_PER_HOUR_THRESHOLD + 2
    /\ trace[Len(trace)].done
    /\ \A i \in 1..(Len(trace) - 1) :
          trace[i].frame = trace[1].frame /\ Bucket(i) = Bucket(1)
    /\ Bucket(Len(trace)) # Bucket(1)
    /\ trace[Len(trace)].frame = trace[1].frame
    /\ Heuristic(Len(trace) - 1) # {}
    /\ Heuristic(Len(trace)) = {}
    /\ Len(sink) = 1

AllDecoded == main = "loop" /\ \A i \in DOMAIN trace : trace[i].done
Names(i) == {DottedName(trace[j].frame.dns.labels) : j \in {x \in 1..i : NameError(trace[x].frame)}}

\* C7 as claimed: the stored bucket is that of the latest response for q and the
\* stored count is the number of responses for q seen so far in that bucket.
C7_CountsAllInBucket ==
    AllDecoded =>
        /\ DOMAIN counters["main"] = Names(Len(trace))
        /\ \A q \in DOMAIN counters["main"] :
              counters["main"][q] =
                  <<Bucket(SetMax(Responses(q, Len(trace)))),
                    Cardinality(InLatestBucket(q, Len(trace)))>>

\* C7 as amended: the stored count is the number of responses for q seen since
\* the bucket of q last changed, i.e. the length of the latest unbroken run of
\* responses for q in that bucket.
C7_CountsLatestRun ==
    AllDecoded =>
        /\ DOMAIN counters["main"] = Names(Len(trace))
        /\ \A q \in DOMAIN counters["main"] :
              counters["main"][q] =
                  <<Bucket(SetMax(Responses(q, Len(trace)))),
                    Cardinality(SinceBucketChange(q, Len(trace)))>>

\* hours 1, 0, 1 for one name: two responses fall in hour 1, the count is 1
C7_Witness ==
    /\ AllDecoded
    /\ Len(trace) = 3
    /\ \A i \in 1..3 : trace[i].frame = NxFrame(IP_A, IP_B, L_be)
    /\ Bucket(1) = 1 /\ Bucket(2) = 0 /\ Bucket(3) = 1
    /\ counters["main"][N_be] = <<1, 1>>
(***************************************************************************)
(* SpecRB: the ring buffer in multi-worker mode, from a point of the       *)
(* capture loop at which every frame captured so far has been decoded, to  *)
(* the return of monitor(); the updater does not run.  The runs start      *)
(* after init() and a few frames before the frame count leaves the range   *)
(* of _n.                                                                  *)
(***************************************************************************)
\* frames captured in one run of SpecRB
MaxRingFrames == 4
\* the frames captured in the runs: a SYN to a listed address
RingFrames == {SynFrame(IP_B, IP_A)}
\* the frames captured before a run starts: ARP, which the decoder drops at line 76
ARP == 2054
ArpFrame == [NoFrame EXCEPT !.caplen = 60, !.eth_protocol = ARP]
\* frame counts at which the runs start
RingStarts == {0, INT_MAX - 2}

\* the state of the capture loop after K ARP frames, all of them decoded
Drained(K) ==
    /\ _count = K
    /\ _n = K
    /\ _buffer = [s \in 0..(Slots - 1) |->
                     LET W == {i \in 0..(K - 1) : i % Slots = s}
                     IN  IF W = {} THEN EmptyBlock
                         ELSE [EmptyBlock EXCEPT !.sec = 1000, !.frame = ArpFrame,
                                                 !.idx = SetMax(W)]]
    /\ widx = [w \in Workers |-> K + ((lane(w) - K) % NWorkers)]
    /\ trace = [i \in 1..K |->
                   TraceEntry(ArpFrame, 1000, TableA, TRUE,
                              Start(ArpFrame, 1000, 0, i - 1, DLT_EN10MB))]
    /\ wlog = [i \in 1..K |-> [idx |-> i - 1, marker |-> "DATA"]]

InitRB ==
    /\ main = "loop"
    /\ _multiprocessing = TRUE
    /\ _datalink = DLT_EN10MB
    /\ \E K \in RingStarts : Drained(K)
    /\ forked = TRUE
    /\ trails = [p \in Procs |-> TableA]
    /\ counters = [p \in Procs |-> EmptyDict]
    /\ ctx = [p \in Procs |-> Idle]
    /\ timer = [pc |-> "wait", table |-> EmptyDict, ticks |-> 1,
                fetched |-> TableA, before |-> EmptyDict]
    /\ sink = <<>>
    /\ exit_code = 0
    /\ ends = 0

\* frames of the run captured so far
Captured == Cardinality({i \in DOMAIN trace : trace[i].frame \in RingFrames})

NextRB ==
    \/ /\ Captured < MaxRingFrames
       /\ \E f \in RingFrames, sec \in WireSecs : packet_handler_write(f, sec)
    \/ packet_handler_publish
    \/ KeyboardInterrupt
    \/ finally_write
    \/ finally_publish
    \/ monitor_return
    \/ \E w \in Workers : decode_step(w)
    \/ \E w \in Workers : worker_read(w)
    \/ \E w \in Workers : worker_next(w)
    \/ \E w \in Workers : worker_exit(w)

SpecRB == InitRB /\ [][NextRB]_vars

(***************************************************************************)
(* Claims about init(), the updater and the exit status                    *)
(***************************************************************************)
\* init() was left after its first updater tick, at one of the checks of
\* lines 234-261 (Spec has no other way to end once that tick has returned)
SetupFailed == main = "exited" /\ timer.ticks >= 1

\* C11: every setup failure ends the process with a non-zero exit status,
\* before a frame is captured and before a worker is started.
C11_SetupFailureExitsNonZero ==
    SetupFailed => (exit_code # 0 /\ ~forked /\ trace = <<>>)

(***************************************************************************)
(* Claims about the ring buffer, the workers and the shutdown              *)
(***************************************************************************)
\* frames i and j are handled by the same decoder: the capture thread in
\* inline mode, the worker of their lane in multi-worker mode
SameDecoder(i, j) == _multiprocessing => (i % NWorkers = j % NWorkers)

\* C12: the alerts of frames handled by the same decoder are logged in
\* capture order.
C12_LaneOrder ==
    \A a, b \in 1..Len(sink) :
        (a < b /\ SameDecoder(sink[a][1], sink[b][1])) => sink[a][1] <= sink[b][1]

(***************************************************************************)
(* Claim about the decoder and the trail dictionary (SpecPD)               *)
(***************************************************************************)
\* C13: decoding a frame leaves the IP, DNS and URL maps of the trail
\* dictionary as they were when the frame was handed to _process_packet.
C13_TrailsUntouched ==
    \A i \in DOMAIN trace : trails["main"] = trace[i].cap

\* a frame has been decoded to its end against a dictionary with trails, a
\* record was logged for it, and the capture loop has taken over again
C13_Witness ==
    /\ main = "loop"
    /\ Len(trace) = 1
    /\ trace[1].done
    /\ trace[1].cap # EmptyDict
    /\ Len(sink) > 0
    /\ trails["main"] = trace[1].cap

(***************************************************************************)
(* Claims about the updater (Spec)                                         *)
(***************************************************************************)
\* a tick has run to its end and no later tick has started; timer.fetched is
\* what its update() returned, timer.before the dictionary it found
TickOver == timer.pc \in {"resched", "wait"}

\* C14: after a tick the dictionary of the capture process is the fetched
\* table if the fetch returned one, the cached table if it returned nothing
\* and the dictionary was empty, and what it was before otherwise.
C14_TickOutcome ==
    TickOver =>
        trails["main"] =
            IF timer.fetched # EmptyDict THEN timer.fetched
            ELSE IF timer.before = EmptyDict THEN load_trails
            ELSE timer.before

\* the second tick fetched a table while the cached one was installed, and
\* every key of the cached table is gone
C14_Witness ==
    /\ timer.pc = "wait"
    /\ timer.ticks = 2
    /\ timer.before = CacheTable
    /\ timer.fetched = TableA
    /\ trails["main"] = TableA
    /\ IP_B \notin DOMAIN trails["main"].IP

\* C15: a tick never ends without the next tick being scheduled, whatever
\* update() and load_trails() do ("dead": update_timer was left by an
\* exception, before line 226).
C15_TickReschedules == timer.pc # "dead"

\* C16: every index below the published N has been written by a write_block
\* call that returned before N was raised over it, and the k-th captured
\* frame is written at index k - 1 (the frames come first in wlog: no frame
\* is captured once the loop has been left).
C16_PublishAfterWrite ==
    /\ \A j \in 0..(_n - 1) : \E k \in DOMAIN wlog : wlog[k].idx = j
    /\ \A k \in DOMAIN wlog : wlog[k].marker = "DATA" => wlog[k].idx = k - 1
    /\ main = "written" =>
          (Len(wlog) > 0 /\ wlog[Len(wlog)].idx = _count /\ _n <= _count)

\* four frames of a run have been written and published, the fourth into
\* the slot of the first
C16_Witness ==
    /\ main = "loop"
    /\ Len(wlog) = MaxRingFrames
    /\ _n = MaxRingFrames
    /\ \A k \in DOMAIN wlog : wlog[k].marker = "DATA"
    /\ _buffer[(_n - 1) % Slots].idx = _n - 1

\* C17: the published counter never decreases: no step takes _n.value to a
\* smaller value.
C17_NeverDecreases == [][_n' >= _n]_vars

\* positions of the END blocks in the history of write_block calls
EndWrites == {k \in DOMAIN wlog : wlog[k].marker = "END"}
\* the loop of lines 317-319 has run to its end
ShutdownDone == main \in {"finally", "returned"} /\ _multiprocessing /\ ends = NWorkers
\* the frame written at position d of wlog has been published (lines 304, 307)
Published(d) == wlog[d].marker = "DATA" /\ wlog[d].idx < _count

\* C18: the shutdown writes exactly W END blocks, at consecutive indices, and
\* publishes each; every lane gets exactly one of them, at an index greater
\* than the index of every DATA block published for the lane.
C18_OneEndPerLane ==
    ShutdownDone =>
        /\ Cardinality(EndWrites) = NWorkers
        /\ \A k \in EndWrites : (k + 1) \in EndWrites => wlog[k + 1].idx = wlog[k].idx + 1
        /\ _n = wlog[Len(wlog)].idx + 1
        /\ \A l \in 0..(NWorkers - 1) :
              Cardinality({k \in EndWrites : wlog[k].idx % NWorkers = l}) = 1
        /\ \A k \in EndWrites, d \in DOMAIN wlog :
              (Published(d) /\ wlog[d].idx % NWorkers = wlog[k].idx % NWorkers)
                  => wlog[k].idx > wlog[d].idx

\* the same statement for the runs in which N stays within the range of _n
C18_WithinRange == (_count + NWorkers <= INT_MAX) => C18_OneEndPerLane

(***************************************************************************)
(* SpecRBFair: SpecRB with the scheduling the processes get: every worker  *)
(* process keeps running, and so does the main thread once it is in the    *)
(* handler or in the shutdown; frames and Ctrl-C come when they come.      *)
(***************************************************************************)
FairRB ==
    /\ \A w \in Workers :
          WF_vars(worker_read(w) \/ decode_step(w) \/ worker_next(w) \/ worker_exit(w))
    /\ WF_vars(packet_handler_publish \/ finally_write \/ finally_publish \/ monitor_return)

SpecRBFair == SpecRB /\ FairRB

\* every frame that was published has been decoded to its end
AllPublishedDecoded ==
    \A d \in DOMAIN wlog : Published(d) => trace[wlog[d].idx + 1].done

\* the counter stays within the range of _n up to the last END block
WithinRange == _count + NWorkers <= INT_MAX

\* C19: after the interrupt every worker decodes the DATA blocks published
\* for its lane, then exits, and monitor() returns -- stated for the runs in
\* which N stays within the range of _n, so that the overflow of C17 plays
\* no part.
C19_DrainAndReturn ==
    (main = "finally" /\ WithinRange) ~> (main = "returned" /\ AllPublishedDecoded)

\* worker w waits for a block that is published but whose marker was cleared,
\* after the last write_block call of the run
Stuck(w) ==
    /\ ShutdownDone
    /\ ctx[w].pc = "idle"
    /\ widx[w] < _n
    /\ _buffer[widx[w] % Slots].marker = "EMPTY"

\* with N within the range of _n: no worker is left waiting, and monitor()
\* returns only when every published frame has been decoded
C19_WithinRange ==
    WithinRange =>
        /\ \A w \in Workers : ~Stuck(w)
        /\ main = "returned" => AllPublishedDecoded

\* C20: init() goes past line 230 only when the first tick has run to its
\* end: the checks, the opening of the interface, the start of the workers
\* and the decoding of frames all come after it.
C20_FirstTickFirst ==
    (main \notin {"init", "exited"} \/ forked \/ trace # <<>>) => timer.ticks >= 1

\* a frame has been decoded while the first tick was the only one so far
C20_Witness ==
    /\ timer.ticks = 1
    /\ timer.pc = "wait"
    /\ Len(trace) = 1
    /\ trace[1].done
    /\ trace[1].obs # {}

====
